---- MODULE Spec2Model ----
(***************************************************************************)
(* Model of the typed cache facades of github.com/sinu5oid/cache: the      *)
(* inmem facade (sync.Map storage) and the lru facade (ARC storage), their *)
(* TTL envelope, lazy expiration and the GetOrFetch wait registry.         *)
(***************************************************************************)
EXTENDS Integers, Sequences, FiniteSets, TLC

\* ------------------------------------------------------------------ bounds
NumProcs == 2      \* goroutines that call GetOrFetch
MaxCalls == 3      \* GetOrFetch calls made in one behaviour
MaxTime  == 1      \* the clock runs over 0..MaxTime
MaxTTL   == 1      \* TTL durations run over 0..MaxTTL
MaxVal   == 1      \* values of T run over 0..MaxVal
MaxMulti == 2      \* longest key list handed to GetMulti
LruSize  == 1      \* size argument of lru.NewCache

Keys      == {"a", "b"}
Procs     == 1..NumProcs
Values    == 0..MaxVal
Durations == 0..MaxTTL
Backends  == {"inmem", "lru"}

\* *new(T): the zero value of T
Zero == 0

\* *time.Duration: {} is the nil pointer, {d} points at d
NilTTL == {}
OptTTL == {NilTTL} \cup {{d} : d \in Durations}
Deref(ptr) == CHOOSE d \in ptr : TRUE

\* ------------------------------------------------------------------ errors
NilErr == [kind |-> "nil", key |-> ""]
NewMissingEntryError(key) == [kind |-> "MissingEntry", key |-> key]
NewFailedToCastEntryError(key) == [kind |-> "FailedToCastEntry", key |-> key]
\* an error made by the caller's fetcher
FetcherErr == [kind |-> "fetcher", key |-> ""]

\* errors.As(err, &missingEntryError)
IsMissingEntryError_any(err) == TRUE

IsMissingEntryError(err) == err.kind = "MissingEntry"

\* ------------------------------------------------------------ TTL envelope
\* withTTL[T]{UpdatedAt, TTL, Value}
withTTL(updatedAt, ttl, value) ==
    [shape |-> "withTTL", UpdatedAt |-> updatedAt, TTL |-> ttl, Value |-> value]

\* a raw value held in the storage that is not a withTTL[T]
OtherRaw == [shape |-> "other", UpdatedAt |-> 0, TTL |-> NilTTL, Value |-> Zero]

\* value.(withTTL[T])
CastOk(raw) == raw.shape = "withTTL"

\* time.Time.Add
Add(t, d) == t + d

After_orEqual(t, u) == t >= u
\* time.Time.After
After(t, u) == t > u

NotExpired_nilIsZero(casted, t) ==
    After(Add(casted.UpdatedAt, IF casted.TTL = NilTTL THEN 0 ELSE Deref(casted.TTL)), t)
\* the two returns of a live value in get: a nil TTL, or UpdatedAt+TTL after now
NotExpired(casted, t) ==
    \/ casted.TTL = NilTTL
    \/ After(Add(casted.UpdatedAt, Deref(casted.TTL)), t)

\* ----------------------------------------------------------------- storage
\* the storage is a map: a function from the keys it holds to raw values
EmptyMap == [k \in {} |-> OtherRaw]
Without(m, key) == [k \in DOMAIN m \ {key} |-> m[k]]
With(m, key, raw) == [k \in DOMAIN m \cup {key} |-> IF k = key THEN raw ELSE m[k]]

delete_all(st, key) == [k \in {} |-> st[k]]
delete_noop(st, key) == st
\* Cache.delete: storage.Delete(key) / storage.Remove(key)
delete(st, key) == Without(st, key)

\* storage.Store (sync.Map) and storage.Add (ARC): the set of storages the
\* write may leave.  The ARC cache holds at most LruSize entries; which entry
\* it evicts to make room is the library's choice.
Store(be, st, key, raw) ==
    LET full == With(st, key, raw) IN
    IF be = "inmem" \/ Cardinality(DOMAIN full) <= LruSize
    THEN {full}
    ELSE {Without(full, victim) : victim \in DOMAIN full \ {key}}

set_defaultWins(be, st, key, value, ttl, defaultTTL, t) ==
    LET finalTTL == IF defaultTTL # NilTTL THEN defaultTTL ELSE ttl IN
    Store(be, st, key, withTTL(t, finalTTL, value))
set_noDefault(be, st, key, value, ttl, defaultTTL, t) ==
    Store(be, st, key, withTTL(t, ttl, value))
\* Cache.set
set(be, st, key, value, ttl, defaultTTL, t) ==
    LET finalTTL == IF ttl # NilTTL THEN ttl ELSE defaultTTL IN
    Store(be, st, key, withTTL(t, finalTTL, value))

\* Cache.get: the value and error it returns and the storage it leaves
get(st, key, t) ==
    IF key \notin DOMAIN st
    THEN [res |-> Zero, err |-> NewMissingEntryError(key), storage |-> st]
    ELSE LET value == st[key] IN
         IF ~CastOk(value)
         THEN [res |-> Zero, err |-> NewFailedToCastEntryError(key),
               storage |-> delete(st, key)]
         ELSE IF NotExpired(value, t)
         THEN [res |-> value.Value, err |-> NilErr, storage |-> st]
         ELSE [res |-> Zero, err |-> NewMissingEntryError(key),
               storage |-> delete(st, key)]

\* cache.StorageItemMulti[T]
StorageItemMulti(key, value) == [Key |-> key, Value |-> value]

RECURSIVE getMultiLoop_break(_, _, _, _)
getMultiLoop_break(st, keys, t, res) ==
    IF keys = <<>> THEN [items |-> res, storage |-> st]
    ELSE LET r == get(st, Head(keys), t) IN
         IF r.err # NilErr
         THEN [items |-> res, storage |-> r.storage]
         ELSE getMultiLoop_break(r.storage, Tail(keys), t,
                                 Append(res, StorageItemMulti(Head(keys), r.res)))

\* the loop of Cache.GetMulti over the keys not yet visited
RECURSIVE getMultiLoop(_, _, _, _)
getMultiLoop(st, keys, t, res) ==
    IF keys = <<>> THEN [items |-> res, storage |-> st]
    ELSE LET r == get(st, Head(keys), t) IN
         IF r.err # NilErr
         THEN getMultiLoop(r.storage, Tail(keys), t, res)
         ELSE getMultiLoop(r.storage, Tail(keys), t,
                           Append(res, StorageItemMulti(Head(keys), r.res)))

\* Cache.Keys
KeysOf(st) == DOMAIN st

\* ---------------------------------------------------------------- channels
\* done := make(chan getOrFetchResult[T]); close(done)
NoChan == [id |-> 0, closed |-> TRUE]
makeDone(id) == [id |-> id, closed |-> TRUE]

\* getOrFetchResult[T]
getOrFetchResult(res, err) == [res |-> res, err |-> err]
FetchResults ==
    {getOrFetchResult(v, NilErr) : v \in Values} \cup {getOrFetchResult(Zero, FetcherErr)}

\* rwQueue.LoadOrStore(key, done)
LoadOrStore_anyKey(m, key, ch) ==
    IF DOMAIN m # {}
    THEN [actual |-> m[CHOOSE k \in DOMAIN m : TRUE], loaded |-> TRUE, m |-> m]
    ELSE [actual |-> ch, loaded |-> FALSE, m |-> With(m, key, ch)]

LoadOrStore(m, key, ch) ==
    IF key \in DOMAIN m
    THEN [actual |-> m[key], loaded |-> TRUE, m |-> m]
    ELSE [actual |-> ch, loaded |-> FALSE, m |-> With(m, key, ch)]

\* Cache.get from the point where c.storage.Load(key) has returned loaded
\* (the value, or nothing): the checks, and the delete of a value that cannot
\* be cast or has expired
getAfterLoad(st, key, loaded, t) ==
    IF loaded = {}
    THEN [res |-> Zero, err |-> NewMissingEntryError(key), storage |-> st]
    ELSE LET value == Deref(loaded) IN
         IF ~CastOk(value)
         THEN [res |-> Zero, err |-> NewFailedToCastEntryError(key),
               storage |-> delete(st, key)]
         ELSE IF NotExpired(value, t)
         THEN [res |-> value.Value, err |-> NilErr, storage |-> st]
         ELSE [res |-> Zero, err |-> NewMissingEntryError(key),
               storage |-> delete(st, key)]

\* ------------------------------------------------------------ redis facade
\* the baseKey given to redis.NewCache
BaseKeys == {"app", "web"}
\* the keys callers hand to the redis facade
RedisKeys == Keys \cup {"app:a"}

\* Cache.formatKey: fmt.Sprintf("%s:%s", c.baseKey, key)
formatKey(baseKey, key) == baseKey \o ":" \o key

\* the rc.Item the store keeps: item.TTL stays 0 when ttl is nil
Item(value, ttl) == [Value |-> value, TTL |-> IF ttl = NilTTL THEN 0 ELSE Deref(ttl)]

\* redis Cache.set: c.storage.Set(item) with Key c.formatKey(key)
redisSet(r, key, value, ttl) ==
    [r EXCEPT !.storage = With(@, formatKey(r.baseKey, key), Item(value, ttl))]

\* redis Cache.delete: c.storage.Delete(ctx, key)
redisDelete(r, key) == [r EXCEPT !.storage = Without(@, key)]

\* redis Cache.get with do == nil: c.storage.Once on Key c.formatKey(key);
\* rc.ErrCacheMiss becomes MissingEntryError
redisGet(r, key) ==
    LET k == formatKey(r.baseKey, key) IN
    IF k \in DOMAIN r.storage
    THEN [res |-> r.storage[k].Value, err |-> NilErr]
    ELSE [res |-> Zero, err |-> NewMissingEntryError(key)]

\* ------------------------------------------------------------------- state
VARIABLES
    backend,     \* which facade this is: "inmem" or "lru"
    storage,     \* Cache.storage
    rwQueue,     \* Cache.rwQueue: key -> channel
    defaultTTL,  \* Cache.defaultTTL
    now,         \* the reading time.Now() gives
    call,        \* per goroutine: its GetOrFetch call (position and locals)
    chanSeq,     \* number of channels made so far
    last,        \* what the operation of the last step was given and returned
    grp,         \* per key: the fetcher invocations of the current group of
                 \* simultaneous GetOrFetch calls (history)
    redis,       \* the redis facade: its baseKey and the store behind rc.Cache
    getting      \* per goroutine: its Get call between the Load and the checks

vars == <<backend, storage, rwQueue, defaultTTL, now, call, chanSeq, last, grp,
          redis, getting>>

\* a goroutine that is not inside GetOrFetch and has not called it yet
IdleCall == [pc |-> "idle", key |-> "", done |-> NoChan, lock |-> NoChan,
             fres |-> {}, out |-> {}, quiet |-> FALSE, seen |-> {}]

\* a step that returns nothing to a caller
NoRet == [op |-> "none", key |-> "", value |-> Zero, ttl |-> NilTTL, at |-> 0,
          res |-> Zero, err |-> NilErr, keys |-> <<>>, items |-> <<>>, pre |-> {}]

VoidGrp == [st |-> "void", f |-> 0]

\* a goroutine that is not inside Get
NotGetting == [pc |-> "idle", key |-> "", value |-> {}]

\* the GetOrFetch calls on key that have started and not ended
InFlight(key) ==
    {p \in Procs : call[p].pc \in {"recv", "get", "fetching", "send"} /\ call[p].key = key}

\* an unrecovered panic has ended the program
Alive == \A p \in Procs : call[p].pc # "crash"

\* the raw value storage.Load(key) gives, if any
Loaded(st, key) == IF key \in DOMAIN st THEN {st[key]} ELSE {}

\* history: a write that touches the keys ks ends the groups of these keys
GrpTouched(ks) == [k \in Keys |-> IF k \in ks THEN VoidGrp ELSE grp[k]]

\* history: a call on key ends
GrpCallEnds(key) ==
    [grp EXCEPT ![key] = IF @.st = "open" THEN [@ EXCEPT !.st = "closing"] ELSE @]

\* NewCache / NewCacheWithTTL of the inmem or the lru package
Init ==
    /\ backend \in Backends
    /\ storage = EmptyMap
    /\ rwQueue = EmptyMap
    /\ defaultTTL \in OptTTL
    /\ now = 0
    /\ call = [p \in Procs |-> IdleCall]
    /\ chanSeq = 0
    /\ last = NoRet
    /\ grp = [k \in Keys |-> VoidGrp]
    /\ redis = [baseKey |-> "", storage |-> EmptyMap]
    /\ getting = [p \in Procs |-> NotGetting]

\* the goroutines whose fetcher is executing for key
Fetching(key) == {p \in Procs : call[p].pc = "fetching" /\ call[p].key = key}

\* the keys other than key on which a leader's fetcher is executing
PendingOther(key) == {k \in Keys \ {key} : Fetching(k) # {} /\ k \in DOMAIN rwQueue}

\* ------------------------------------------------------- plain operations
WithTTL(d) ==
    /\ Alive
    /\ defaultTTL' = {d}
    /\ last' = [NoRet EXCEPT !.op = "WithTTL", !.ttl = {d}]
    /\ UNCHANGED <<redis, getting, backend, storage, rwQueue, now, call, chanSeq, grp>>

Clear ==
    /\ Alive
    /\ storage' = EmptyMap
    /\ rwQueue' = IF backend = "inmem" THEN EmptyMap ELSE rwQueue
    /\ last' = [NoRet EXCEPT !.op = "Clear"]
    /\ grp' = GrpTouched(Keys)
    /\ UNCHANGED <<redis, getting, backend, defaultTTL, now, call, chanSeq>>

Get(key) ==
    /\ Alive
    /\ LET r == get(storage, key, now) IN
        /\ storage' = r.storage
        /\ last' = [NoRet EXCEPT !.op = "Get", !.key = key, !.at = now, !.res = r.res,
                                 !.err = r.err, !.pre = Loaded(storage, key)]
    /\ UNCHANGED <<redis, getting, backend, rwQueue, defaultTTL, now, call, chanSeq, grp>>

Set(key, value) ==
    /\ Alive
    /\ storage' \in set(backend, storage, key, value, NilTTL, defaultTTL, now)
    /\ last' = [NoRet EXCEPT !.op = "Set", !.key = key, !.value = value, !.at = now]
    /\ grp' = GrpTouched({key})
    /\ UNCHANGED <<redis, getting, backend, rwQueue, defaultTTL, now, call, chanSeq>>

SetWithTTL(key, value, ttl) ==
    /\ Alive
    /\ storage' \in set(backend, storage, key, value, {ttl}, defaultTTL, now)
    /\ last' = [NoRet EXCEPT !.op = "SetWithTTL", !.key = key, !.value = value,
                             !.ttl = {ttl}, !.at = now]
    /\ grp' = GrpTouched({key})
    /\ UNCHANGED <<redis, getting, backend, rwQueue, defaultTTL, now, call, chanSeq>>

Delete(key) ==
    /\ Alive
    /\ storage' = delete(storage, key)
    /\ last' = [NoRet EXCEPT !.op = "Delete", !.key = key, !.pre = Loaded(storage, key)]
    /\ grp' = GrpTouched({key})
    /\ UNCHANGED <<redis, getting, backend, rwQueue, defaultTTL, now, call, chanSeq>>

GetMulti(keys) ==
    /\ Alive
    /\ LET r == getMultiLoop(storage, keys, now, <<>>) IN
        /\ storage' = r.storage
        /\ last' = [NoRet EXCEPT !.op = "GetMulti", !.keys = keys, !.at = now,
                                 !.items = r.items]
    /\ UNCHANGED <<redis, getting, backend, rwQueue, defaultTTL, now, call, chanSeq, grp>>

\* code of the package (a test, another facade type over the same storage)
\* puts a value that is not a withTTL[T] into the storage
Inject(key) ==
    /\ Alive
    /\ storage' \in Store(backend, storage, key, OtherRaw)
    /\ last' = [NoRet EXCEPT !.op = "Inject", !.key = key]
    /\ grp' = GrpTouched({key})
    /\ UNCHANGED <<redis, getting, backend, rwQueue, defaultTTL, now, call, chanSeq>>

\* -------------------------------------------------------------- GetOrFetch
\* entry: make the closed channel done, then rwQueue.LoadOrStore(key, done)
GofCall(p, key) ==
    /\ Alive
    /\ call[p].pc \in {"idle", "ret", "panic"}
    /\ chanSeq < MaxCalls
    /\ LET done == makeDone(chanSeq + 1)
           ls == LoadOrStore(rwQueue, key, done)
       IN
       /\ chanSeq' = chanSeq + 1
       /\ rwQueue' = ls.m
       /\ call' = [call EXCEPT ![p] =
                     [IdleCall EXCEPT !.pc = IF ls.loaded THEN "recv" ELSE "get",
                                      !.key = key,
                                      !.done = done,
                                      !.lock = IF ls.loaded THEN ls.actual ELSE NoChan,
                                      !.quiet = (InFlight(key) = {})]]
       /\ grp' = [grp EXCEPT ![key] =
                     IF InFlight(key) = {}
                     THEN [st |-> IF key \in DOMAIN storage THEN "void" ELSE "open", f |-> 0]
                     ELSE IF @.st = "closing" THEN VoidGrp ELSE @]
    /\ last' = NoRet
    /\ UNCHANGED <<redis, getting, backend, storage, defaultTTL, now>>

\* history: the result the leader that made channel ch has from its fetcher
LeaderResult(ch) ==
    UNION {call[q].fres : q \in {q \in Procs : call[q].done = ch}}

\* follower: res := <-c; return res.res, res.err.  A closed channel gives the
\* zero getOrFetchResult at once; an open one gives nothing until a send.
GofRecv(p) ==
    /\ Alive
    /\ call[p].pc = "recv"
    /\ call[p].lock.closed
    /\ call' = [call EXCEPT ![p].pc = "ret",
                            ![p].out = {getOrFetchResult(Zero, NilErr)},
                            ![p].seen = LeaderResult(call[p].lock)]
    /\ grp' = GrpCallEnds(call[p].key)
    /\ last' = NoRet
    /\ UNCHANGED <<redis, getting, backend, storage, rwQueue, defaultTTL, now, chanSeq>>

\* leader: result, err := c.get(key); both early returns; else call fetcher
GofGet(p) ==
    /\ Alive
    /\ call[p].pc = "get"
    /\ LET r == get(storage, call[p].key, now) IN
        /\ storage' = r.storage
        /\ IF r.err = NilErr \/ ~IsMissingEntryError(r.err)
           THEN /\ call' = [call EXCEPT ![p].pc = "ret",
                                        ![p].out = {getOrFetchResult(r.res, r.err)}]
                /\ grp' = GrpCallEnds(call[p].key)
           ELSE /\ call' = [call EXCEPT ![p].pc = "fetching"]
                /\ grp' = [grp EXCEPT ![call[p].key] =
                             IF @.st = "void" THEN @ ELSE [@ EXCEPT !.f = @ + 1]]
    /\ last' = NoRet
    /\ UNCHANGED <<redis, getting, backend, rwQueue, defaultTTL, now, chanSeq>>

\* the caller's fetcher returns
GofFetcherReturns(p, r) ==
    /\ Alive
    /\ call[p].pc = "fetching"
    /\ call' = [call EXCEPT ![p].pc = "send", ![p].fres = {r}]
    /\ last' = NoRet
    /\ UNCHANGED <<redis, getting, backend, storage, rwQueue, defaultTTL, now, chanSeq, grp>>

\* leader: done <- getOrFetchResult[T]{result, err}.  A send on a closed
\* channel panics, before the deferred rwQueue.Delete is registered; the
\* panic ends the program unless the caller recovers from it.  A send on an
\* open channel would hand the result to one receiver, and the call would
\* return through the deferred rwQueue.Delete(key).
GofSend(p) ==
    /\ Alive
    /\ call[p].pc = "send"
    /\ IF call[p].done.closed
       THEN /\ \E recovered \in BOOLEAN :
                 call' = [call EXCEPT ![p].pc = IF recovered THEN "panic" ELSE "crash"]
            /\ UNCHANGED rwQueue
       ELSE /\ \E q \in Procs :
                 /\ call[q].pc = "recv"
                 /\ call[q].lock = call[p].done
                 /\ call' = [call EXCEPT ![q].pc = "ret", ![q].out = call[p].fres,
                                         ![q].seen = call[p].fres,
                                         ![p].pc = "ret", ![p].out = call[p].fres]
            /\ rwQueue' = delete(rwQueue, call[p].key)
    /\ grp' = GrpCallEnds(call[p].key)
    /\ last' = NoRet
    /\ UNCHANGED <<redis, getting, backend, storage, defaultTTL, now, chanSeq>>

\* the key lists handed to GetMulti
KeyLists == UNION {[1..n -> Keys] : n \in 0..MaxMulti}

\* time passes between two steps of the program
Tick ==
    /\ Alive
    /\ now < MaxTime
    /\ now' = now + 1
    /\ UNCHANGED <<redis, getting, backend, storage, rwQueue, defaultTTL, call, chanSeq, last, grp>>

\* ------------------------------------------------- Get in two steps
\* Get, first part: value, ok := c.storage.Load(key)
GetBegin(p, key) ==
    /\ Alive
    /\ getting[p].pc = "idle"
    /\ getting' = [getting EXCEPT ![p] =
                     [pc |-> "loaded", key |-> key, value |-> Loaded(storage, key)]]
    /\ last' = NoRet
    /\ UNCHANGED <<redis, backend, storage, rwQueue, defaultTTL, now, call, chanSeq, grp>>

\* Get, second part: the checks on the loaded value, c.delete(key), return
GetEnd(p) ==
    /\ Alive
    /\ getting[p].pc = "loaded"
    /\ LET r == getAfterLoad(storage, getting[p].key, getting[p].value, now) IN
        /\ storage' = r.storage
        /\ last' = [NoRet EXCEPT !.op = "GetEnd", !.key = getting[p].key, !.at = now,
                                 !.res = r.res, !.err = r.err, !.pre = getting[p].value]
    /\ getting' = [getting EXCEPT ![p] = NotGetting]
    /\ UNCHANGED <<redis, backend, rwQueue, defaultTTL, now, call, chanSeq, grp>>

\* ------------------------------------------------------------ redis facade
RedisSet(key, value) ==
    /\ redis' = redisSet(redis, key, value, NilTTL)
    /\ last' = [NoRet EXCEPT !.op = "RedisSet", !.key = key, !.value = value]
    /\ UNCHANGED <<getting, backend, storage, rwQueue, defaultTTL, now, call, chanSeq, grp>>

RedisSetWithTTL(key, value, ttl) ==
    /\ redis' = redisSet(redis, key, value, {ttl})
    /\ last' = [NoRet EXCEPT !.op = "RedisSetWithTTL", !.key = key, !.value = value,
                             !.ttl = {ttl}]
    /\ UNCHANGED <<getting, backend, storage, rwQueue, defaultTTL, now, call, chanSeq, grp>>

RedisDelete(key) ==
    /\ redis' = redisDelete(redis, key)
    /\ last' = [NoRet EXCEPT !.op = "RedisDelete", !.key = key]
    /\ UNCHANGED <<getting, backend, storage, rwQueue, defaultTTL, now, call, chanSeq, grp>>

RedisGet(key) ==
    /\ LET r == redisGet(redis, key) IN
        last' = [NoRet EXCEPT !.op = "RedisGet", !.key = key, !.res = r.res, !.err = r.err]
    /\ UNCHANGED <<redis, getting, backend, storage, rwQueue, defaultTTL, now, call,
                   chanSeq, grp>>

\* the operations that do not wait: one caller after another, time passing
Next ==
    \/ Tick
    \/ \E d \in Durations : WithTTL(d)
    \/ Clear
    \/ \E k \in Keys : Get(k)
    \/ \E k \in Keys, v \in Values : Set(k, v)
    \/ \E k \in Keys, v \in Values, d \in Durations : SetWithTTL(k, v, d)
    \/ \E k \in Keys : Delete(k)
    \/ \E ks \in KeyLists : GetMulti(ks)
    \/ \E k \in Keys : Inject(k)

Spec == Init /\ [][Next]_vars

\* goroutines inside GetOrFetch, interleaved with each other and with writes
\* and deletes of other callers
NextGof ==
    \/ \E k \in Keys, v \in Values : Set(k, v)
    \/ \E k \in Keys : Delete(k)
    \/ \E p \in Procs, k \in Keys : GofCall(p, k)
    \/ \E p \in Procs : GofRecv(p)
    \/ \E p \in Procs : GofGet(p)
    \/ \E p \in Procs, r \in FetchResults : GofFetcherReturns(p, r)
    \/ \E p \in Procs : GofSend(p)

SpecGof == Init /\ [][NextGof]_vars

\* the same with callers of Get and Clear
NextAll ==
    \/ NextGof
    \/ Clear
    \/ \E k \in Keys : Get(k)

\* NewCache: a facade without default TTL
InitNewCache == Init /\ defaultTTL = NilTTL

SpecAll == InitNewCache /\ [][NextAll]_vars

\* one goroutine calls GetOrFetch again and again while other callers write
\* entries and raw values of another shape and delete them
NextCast ==
    \/ \E k \in Keys, v \in Values : Set(k, v)
    \/ \E k \in Keys : Inject(k)
    \/ \E k \in Keys : Delete(k)
    \/ \E k \in Keys : GofCall(1, k)
    \/ GofRecv(1)
    \/ GofGet(1)
    \/ \E r \in FetchResults : GofFetcherReturns(1, r)
    \/ GofSend(1)

SpecCast == Init /\ [][NextCast]_vars

\* two goroutines inside GetOrFetch on a facade made by NewCache; while the
\* fetcher of a leader is executing, Get, Set and Delete are called on the
\* other keys (by that fetcher, or by other callers)
NextPair ==
    \/ \E k \in Keys, v \in Values : PendingOther(k) # {} /\ Set(k, v)
    \/ \E k \in Keys : PendingOther(k) # {} /\ Delete(k)
    \/ \E k \in Keys : PendingOther(k) # {} /\ Get(k)
    \/ \E p \in 1..2, k \in Keys : GofCall(p, k)
    \/ \E p \in 1..2 : GofRecv(p)
    \/ \E p \in 1..2 : GofGet(p)
    \/ \E p \in 1..2, r \in FetchResults : GofFetcherReturns(p, r)
    \/ \E p \in 1..2 : GofSend(p)

SpecPair == InitNewCache /\ [][NextPair]_vars

\* Get calls in two steps beside writers, time passing
NextRace ==
    \/ Tick
    \/ \E k \in Keys, v \in Values : Set(k, v)
    \/ \E k \in Keys, v \in Values, d \in Durations : SetWithTTL(k, v, d)
    \/ \E p \in Procs, k \in Keys : GetBegin(p, k)
    \/ \E p \in Procs : GetEnd(p)

SpecRace == Init /\ [][NextRace]_vars

\* redis.NewCache(cache, baseKey) over an empty store
InitRedis ==
    /\ backend = "redis"
    /\ redis \in [baseKey : BaseKeys, storage : {EmptyMap}]
    /\ storage = EmptyMap
    /\ rwQueue = EmptyMap
    /\ defaultTTL = NilTTL
    /\ now = 0
    /\ call = [p \in Procs |-> IdleCall]
    /\ chanSeq = 0
    /\ last = NoRet
    /\ grp = [k \in Keys |-> VoidGrp]
    /\ getting = [p \in Procs |-> NotGetting]

NextRedis ==
    \/ \E k \in RedisKeys, v \in Values : RedisSet(k, v)
    \/ \E k \in RedisKeys, v \in Values, d \in Durations : RedisSetWithTTL(k, v, d)
    \/ \E k \in RedisKeys : RedisDelete(k)
    \/ \E k \in RedisKeys : RedisGet(k)

SpecRedis == InitRedis /\ [][NextRedis]_vars

TypeOK ==
    /\ backend \in Backends \cup {"redis"}
    /\ redis.baseKey \in BaseKeys \cup {""}
    /\ \A p \in Procs : getting[p].pc \in {"idle", "loaded"}
    /\ DOMAIN storage \subseteq Keys
    /\ DOMAIN rwQueue \subseteq Keys
    /\ defaultTTL \in OptTTL
    /\ now \in 0..MaxTime
    /\ chanSeq \in 0..MaxCalls

\* ---------------------------------------------------- GetOrFetch claims
\* the call of goroutine p has ended: by a return, or by a panic
Ended(c) == c.pc \in {"ret", "panic", "crash"}

\* the raw value under key is an envelope that has not expired at time t
Live(st, key, t) ==
    /\ key \in DOMAIN st
    /\ st[key].shape = "withTTL"
    /\ \/ st[key].TTL = NilTTL
       \/ \E d \in st[key].TTL : t < st[key].UpdatedAt + d

\* C1: the GetOrFetch calls of one group (calls on one key, all started
\* before any of them ended, the key absent from the storage from the first
\* call on and no other caller writing it) invoke the fetcher exactly once in
\* total: never more than once, and once when the last of them has ended.
C1_FetcherInvokedExactlyOnce ==
    \A k \in Keys :
        /\ grp[k].st # "void" => grp[k].f <= 1
        /\ (grp[k].st = "closing" /\ InFlight(k) = {}) => grp[k].f = 1

\* C2: a follower (a call that found a registry entry for its key) returns
\* only when the leader that made the entry has its fetcher's result, and
\* returns exactly that result.
C2_FollowerGetsLeaderResult ==
    \A p \in Procs :
        (call[p].pc = "ret" /\ call[p].lock # NoChan)
            => (call[p].seen # {} /\ call[p].out = call[p].seen)

\* C3: in the step that ends the call of a leader whose fetcher returned
\* (v, nil), the storage holds v under the key with the default TTL.
C3_FetchedValueStored ==
    [][\A p \in Procs :
        (call[p].pc = "send" /\ Ended(call'[p])
           /\ \E r \in call[p].fres : r.err = NilErr)
        => /\ call[p].key \in DOMAIN storage'
           /\ CastOk(storage'[call[p].key])
           /\ storage'[call[p].key].TTL = defaultTTL
           /\ \A r \in call[p].fres : storage'[call[p].key].Value = r.res]_vars

\* C4: a GetOrFetch call that started while no other GetOrFetch on its key
\* was in flight, and that returns at its first decision (the receive of a
\* follower, the backend check of a leader) while the key holds a live entry
\* with value v, returns (v, nil); the fetcher is not invoked.
C4_LiveKeyIsReturned ==
    [][\A p \in Procs :
        (call[p].pc \in {"recv", "get"} /\ call[p].quiet
           /\ Live(storage, call[p].key, now) /\ call'[p].pc # call[p].pc)
        => /\ call'[p].pc = "ret"
           /\ call'[p].out = {getOrFetchResult(storage[call[p].key].Value, NilErr)}]_vars

\* C5: no GetOrFetch call ends other than by returning to its caller: a
\* leader whose fetcher has returned publishes and cleans up without aborting.
C5_EveryCallReturnsNormally ==
    \A p \in Procs : call[p].pc \notin {"panic", "crash"}

\* ------------------------------------------------ claims on Get, Set, TTL
\* C6: an entry written at t0 with TTL d (SetWithTTL, or Set under the
\* default TTL d) is stored with UpdatedAt t0 and TTL d; Get returns its
\* value at every time before t0+d and keeps it, and returns MissingEntry at
\* every time from t0+d on and removes the key, which Keys() no longer lists.
C6_TTLExpiry ==
    /\ (last.op = "SetWithTTL" \/ (last.op = "Set" /\ defaultTTL # NilTTL))
        => /\ last.key \in KeysOf(storage)
           /\ storage[last.key] =
                withTTL(last.at, IF last.op = "Set" THEN defaultTTL ELSE last.ttl, last.value)
    /\ last.op = "Get"
        => \A e \in last.pre :
             (CastOk(e) /\ e.TTL # NilTTL)
             => \A d \in e.TTL :
                  IF last.at < e.UpdatedAt + d
                  THEN /\ last.res = e.Value /\ last.err = NilErr
                       /\ last.key \in KeysOf(storage) /\ storage[last.key] = e
                  ELSE /\ last.res = Zero /\ last.err = NewMissingEntryError(last.key)
                       /\ last.key \notin KeysOf(storage)

\* a Get found an entry, live when it was written, expired and removed it
C6_W ==
    /\ last.op = "Get"
    /\ last.err = NewMissingEntryError(last.key)
    /\ last.key \notin KeysOf(storage)
    /\ \E e \in last.pre : \E d \in e.TTL :
         CastOk(e) /\ d > 0 /\ e.Value # Zero /\ last.at >= e.UpdatedAt + d

\* C7 as stated: a Get(k) that follows Set(k, v) with no operation in
\* between and no time elapsed returns (v, nil), whatever the default TTL.
C7_SetThenGetReturnsValue ==
    [][(last.op = "Set" /\ now = last.at /\ Get(last.key))
        => (last'.res = last.value /\ last'.err = NilErr)]_vars

\* C7 amended: a Get(k) that follows Set(k, v) with no operation in between
\* returns (v, nil) if the facade has no default TTL or less than the default
\* TTL has elapsed since the Set, and MissingEntry otherwise (always so for a
\* default TTL of zero).
C7_SetThenGetWithinTTL ==
    [][(last.op = "Set" /\ Get(last.key))
        => IF defaultTTL = NilTTL \/ \E d \in defaultTTL : now - last.at < d
           THEN last'.res = last.value /\ last'.err = NilErr
           ELSE last'.res = Zero /\ last'.err = NewMissingEntryError(last.key)]_vars

\* a Get returned the value of an entry that carries the default TTL
C7_W ==
    /\ last.op = "Get"
    /\ last.err = NilErr
    /\ last.res # Zero
    /\ defaultTTL # NilTTL
    /\ \E e \in last.pre : e.TTL = defaultTTL /\ e.Value = last.res

\* C8: Set on a facade without default TTL stores an entry without TTL, and
\* Get returns the value of an entry without TTL at every time and keeps it.
C8_NoTTLNeverExpires ==
    /\ (last.op = "Set" /\ defaultTTL = NilTTL)
        => /\ last.key \in KeysOf(storage)
           /\ storage[last.key] = withTTL(last.at, NilTTL, last.value)
    /\ last.op = "Get"
        => \A e \in last.pre :
             (CastOk(e) /\ e.TTL = NilTTL)
             => /\ last.res = e.Value /\ last.err = NilErr
                /\ last.key \in KeysOf(storage) /\ storage[last.key] = e

\* a Get returned an entry without TTL as late after its write as the clock goes
C8_W ==
    /\ last.op = "Get"
    /\ last.err = NilErr
    /\ last.at = MaxTime
    /\ \E e \in last.pre :
         CastOk(e) /\ e.TTL = NilTTL /\ e.UpdatedAt = 0 /\ e.Value # Zero
                   /\ last.res = e.Value

\* C9: Get(k) on a raw value that is not an envelope returns
\* FailedToCastEntry and removes k; the Get(k) that follows it returns
\* MissingEntry.
C9_CorruptEntryRemoved ==
    [][(last'.op = "Get" /\ Get(last'.key))
        => LET k == last'.key IN
           /\ \A e \in Loaded(storage, k) :
                ~CastOk(e)
                => /\ last'.err = NewFailedToCastEntryError(k)
                   /\ last'.res = Zero
                   /\ k \notin KeysOf(storage')
           /\ (last.op = "Get" /\ last.key = k
                 /\ last.err = NewFailedToCastEntryError(k))
                => last'.err = NewMissingEntryError(k)]_vars

\* a Get found a raw value of another shape and removed it
C9_W ==
    /\ last.op = "Get"
    /\ last.err = NewFailedToCastEntryError(last.key)
    /\ \E e \in last.pre : ~CastOk(e)
    /\ last.key \notin KeysOf(storage)

\* the items GetMulti owes: one per requested key with a live entry, in the
\* order of the request
LiveItems(st, keys, t) ==
    LET live == SelectSeq(keys, LAMBDA k : Live(st, k, t))
    IN [i \in 1..Len(live) |-> [Key |-> live[i], Value |-> st[live[i]].Value]]

\* C10: GetMulti returns no error and exactly one item per requested key
\* that has a live entry, in the order of the request; absent, expired and
\* undecodable keys are skipped, so there are at most as many items as keys.
C10_GetMultiLiveItems ==
    [][(last'.op = "GetMulti" /\ GetMulti(last'.keys))
        => /\ last'.err = NilErr
           /\ last'.items = LiveItems(storage, last'.keys, now)
           /\ Len(last'.items) <= Len(last'.keys)]_vars

\* a GetMulti skipped a key that was asked first and returned the second
C10_W ==
    /\ last.op = "GetMulti"
    /\ Len(last.keys) = 2
    /\ Len(last.items) = 1
    /\ last.items[1].Key = last.keys[2]
    /\ last.keys[1] # last.keys[2]
    /\ last.items[1].Value # Zero

\* ------------------------------------------- claims on writes and Delete
\* C11: Set(k, v) leaves under k the envelope (now, default TTL of that
\* moment, v), with no TTL if there is no default; SetWithTTL(k, v, d) leaves
\* (now, d, v) whatever the default; both whatever k held before.  WithTTL
\* changes the default and leaves the storage, every stored TTL and
\* UpdatedAt with it, as it was.
C11_WritesUseTheirTTL ==
    [][/\ (last'.op = "Set" /\ Set(last'.key, last'.value))
            => /\ last'.key \in KeysOf(storage')
               /\ storage'[last'.key] = withTTL(now, defaultTTL, last'.value)
       /\ (last'.op = "SetWithTTL" /\ \E d \in last'.ttl : SetWithTTL(last'.key, last'.value, d))
            => /\ last'.key \in KeysOf(storage')
               /\ storage'[last'.key] = withTTL(now, last'.ttl, last'.value)
       /\ (last'.op = "WithTTL" /\ \E d \in last'.ttl : WithTTL(d))
            => /\ storage' = storage
               /\ defaultTTL' = last'.ttl]_vars

\* WithTTL has changed the default while an entry written by SetWithTTL over
\* an older entry keeps another TTL
C11_W ==
    /\ last.op = "WithTTL"
    /\ defaultTTL = last.ttl
    /\ \E k \in KeysOf(storage) :
         /\ CastOk(storage[k])
         /\ storage[k].TTL # NilTTL
         /\ storage[k].TTL # defaultTTL
         /\ storage[k].Value # Zero

\* C12: Delete(k) returns no error, leaves k absent and the raw value of
\* every other key as it was; a Get(k) that follows it, at any later time,
\* returns MissingEntry.
C12_DeleteRemovesOnlyKey ==
    [][/\ (last'.op = "Delete" /\ Delete(last'.key))
            => /\ last'.err = NilErr
               /\ last'.key \notin KeysOf(storage')
               /\ \A j \in Keys \ {last'.key} : Loaded(storage', j) = Loaded(storage, j)
       /\ (last.op = "Delete" /\ last'.op = "Get" /\ last'.key = last.key /\ Get(last.key))
            => /\ last'.err = NewMissingEntryError(last.key)
               /\ last'.res = Zero]_vars

\* a Delete removed a key that was present and another key is still stored
C12_W ==
    /\ last.op = "Delete"
    /\ last.pre # {}
    /\ last.key \notin KeysOf(storage)
    /\ KeysOf(storage) # {}

\* ------------------------------------------------ claims on the registry
\* C13: in the step that ends the call of a leader (a call that stored its
\* own channel in the registry), on whatever path, the registry is left
\* without an entry for the key.
C13_RegistryEmptyAfterLeader ==
    [][\A p \in Procs :
        (call[p].pc \in {"get", "send"} /\ call[p].lock = NoChan /\ Ended(call'[p]))
        => call[p].key \notin DOMAIN rwQueue']_vars

\* C14: at most one fetcher invocation is executing for a key, in every
\* interleaving of GetOrFetch, Get, Set, Delete and Clear.
C14_OneFetcherPerKey ==
    \A k \in Keys : Cardinality(Fetching(k)) <= 1

\* C15: the leader's backend check on an entry that cannot be decoded ends
\* the call with (zero, FailedToCastEntry) and no fetcher invocation; the
\* fetcher is invoked exactly when the key was absent or its entry expired.
C15_CastErrorSkipsFetch ==
    [][\A p \in Procs :
        (call[p].pc = "get" /\ call'[p].pc # "get")
        => LET k == call[p].key
               corrupt == k \in DOMAIN storage /\ storage[k].shape # "withTTL"
               missing == k \notin DOMAIN storage
                            \/ (~corrupt /\ ~Live(storage, k, now))
           IN /\ corrupt => /\ call'[p].pc = "ret"
                             /\ call'[p].out =
                                  {getOrFetchResult(Zero, NewFailedToCastEntryError(k))}
              /\ (call'[p].pc = "fetching") <=> missing]_vars

\* a leader returned FailedToCastEntry without a fetcher result
C15_W ==
    \E p \in Procs :
        /\ call[p].pc = "ret"
        /\ call[p].lock = NoChan
        /\ call[p].fres = {}
        /\ call[p].out =
             {getOrFetchResult(Zero, NewFailedToCastEntryError(call[p].key))}

\* C16: the step that ends the call of a leader whose fetcher returned an
\* error e is a return of e, and it leaves the storage as it was.
C16_FetchErrorReturned ==
    [][\A p \in Procs :
        (call[p].pc = "send" /\ call'[p].pc # "send"
           /\ \E r \in call[p].fres : r.err # NilErr)
        => /\ call'[p].pc = "ret"
           /\ call'[p].out = call[p].fres
           /\ storage' = storage]_vars

\* C17: while the fetcher of a leader for key A is executing, operations on
\* another key B go as the state of B alone says.  A GetOrFetch on B claims
\* leadership exactly when the registry has no entry for B, and otherwise
\* waits on B's channel, which is closed (it is not held up by A's entry), so
\* that its next step can always be taken;
\* Get, Set and Delete on B return what the entry of B gives; none of them
\* changes A's registry entry or A's call.
C17_KeysIndependent ==
    [][/\ \A q \in Procs :
            (Alive /\ call[q].pc \in {"recv", "get"} /\ PendingOther(call[q].key) # {})
            => ENABLED (GofRecv(q) \/ GofGet(q))
       /\ \A q \in Procs :
            (/\ call[q].pc \in {"idle", "ret", "panic"}
             /\ call'[q].pc \in {"recv", "get"}
             /\ PendingOther(call'[q].key) # {})
            => LET B == call'[q].key IN
               /\ (call'[q].pc = "get") <=> (B \notin DOMAIN rwQueue)
               /\ call'[q].pc = "recv"
                    => /\ call'[q].lock = rwQueue[B]
                       /\ call'[q].lock.closed
               /\ \A A \in PendingOther(B) :
                    /\ rwQueue'[A] = rwQueue[A]
                    /\ \A p \in Fetching(A) : call'[p] = call[p]
       /\ (last'.op \in {"Get", "Set", "Delete"} /\ PendingOther(last'.key) # {})
            => LET B == last'.key IN
               /\ (last'.op = "Get" /\ Get(B))
                    => IF Live(storage, B, now)
                       THEN last'.err = NilErr /\ last'.res = storage[B].Value
                       ELSE last'.err = NewMissingEntryError(B) /\ last'.res = Zero
               /\ (last'.op = "Set" /\ Set(B, last'.value))
                    => /\ last'.err = NilErr
                       /\ B \in DOMAIN storage'
                       /\ storage'[B] = withTTL(now, defaultTTL, last'.value)
               /\ (last'.op = "Delete" /\ Delete(B))
                    => last'.err = NilErr /\ B \notin DOMAIN storage'
               /\ rwQueue' = rwQueue
               /\ call' = call]_vars

\* two leaders are in their fetchers on two keys, the one that called second
\* having been given leadership while the first was pending
C17_W ==
    \E p, q \in Procs :
        /\ call[p].pc = "fetching"
        /\ call[q].pc = "fetching"
        /\ call[p].key # call[q].key
        /\ call[p].done.id < call[q].done.id
        /\ call[q].lock = NoChan

\* C20: right after a Clear with no GetOrFetch in flight the storage lists
\* no key, a Get returns MissingEntry, and a GetOrFetch claims leadership
\* (it does not join a round left from before the Clear).
C20_ClearGivesFreshFacade ==
    [][(last.op = "Clear" /\ \A k \in Keys : InFlight(k) = {})
        => /\ KeysOf(storage) = {}
           /\ (last'.op = "Get" /\ Get(last'.key))
                => last'.err = NewMissingEntryError(last'.key)
           /\ \A p \in Procs : call'[p].pc # "recv"]_vars

\* ---------------------------------------------------- redis facade claim
\* C18: in the redis facade Delete(k) removes the entry that Set(k, v) or
\* SetWithTTL(k, v, d) wrote: after the Delete the store has no entry under
\* the key Set writes for k, and a Get(k) that follows returns MissingEntry.
C18_RedisDeleteRemovesSetEntry ==
    [][/\ (last'.op = "RedisDelete" /\ RedisDelete(last'.key))
            => formatKey(redis.baseKey, last'.key) \notin DOMAIN redis'.storage
       /\ (last.op = "RedisDelete" /\ last'.op = "RedisGet" /\ last'.key = last.key
             /\ RedisGet(last.key))
            => last'.err = NewMissingEntryError(last.key)]_vars

\* ------------------------------------------------- lazy expiration claim
\* C19: the step in which a Get ends never removes an entry that is live at
\* that moment (one a Set or SetWithTTL completed after the Get loaded the
\* expired entry): the entry is still there, as written, after the step.
C19_GetKeepsLiveEntry ==
    [][\A p \in Procs :
        (/\ getting[p].pc = "loaded"
         /\ getting'[p].pc = "idle"
         /\ Live(storage, getting[p].key, now))
        => /\ getting[p].key \in DOMAIN storage'
           /\ storage'[getting[p].key] = storage[getting[p].key]]_vars

====
